---- MODULE Spec2Model ----
(***************************************************************************)
(* The acknowledgement buffer of go-uspclient (src/ack_buffer.go) as a     *)
(* state machine: producers calling Add, a sender calling                  *)
(* GetNextToDeliver, a receiver calling Ack and a controller calling       *)
(* ResetDelivery and Close, plus the peer of src/client_test.go that       *)
(* answers every record carrying AckRequested with an ACK, and the session *)
(* of TestConnection with its reconnect controller.                        *)
(*                                                                         *)
(* Every method body that runs between b.Lock() and b.Unlock() is one      *)
(* atomic action; the waits on the two Event latches happen outside the    *)
(* lock and are actions of their own.  A Go runtime panic ends the         *)
(* process: it is recorded in `panic` and disables every action.           *)
(***************************************************************************)
EXTENDS Integers, Sequences, FiniteSets

\* ---------------------------------------------------------------- bounds

\* Largest BufferCapacity a buffer is constructed with.
MaxCapacity == 4

\* Records admitted plus Add calls in progress, in one behaviour.
MaxAdds == 5

\* uint64 arithmetic is modelled modulo 2^UintBits; every counter the
\* bounded behaviours reach stays far below the modulus, as in the program.
UintBits == 6

Producers == {"p1", "p2"}

\* ------------------------------------------------- uint64 arithmetic

UintModulus == 2 ^ UintBits

MaxUint64 == UintModulus - 1

Add64(a, b) == (a + b) % UintModulus

Sub64(a, b) == ((a - b) + UintModulus) % UintModulus

\* ---------------------------------------------------------------- values

\* A nil *protocol.DataMessage.
NoMsg == [seq |-> 0, ack |-> FALSE, nil |-> TRUE]

DataMessage(s, a) == [seq |-> s, ack |-> a, nil |-> FALSE]

\* The sequence numbers an Ack call is given: everything up to one past the
\* largest number assigned, and the largest uint64.
AckSeqs == (0 .. (MaxAdds + 1)) \cup {MaxUint64}

NoPanic == "none"

VARIABLES
    capacity,            \* len(b.buff)
    buff,                \* b.buff, indexed 0 .. capacity-1
    nextIndexFree,
    firstSeqNum,
    nextSeqNum,
    ackEvery,
    nextIndexToDeliver,
    isAvailable,         \* the isAvailable latch is set
    isReadyToDeliver,    \* the isReadyToDeliver latch is set
    isRunning,
    pc,                  \* per producer: where its Add call stands
    tmo,                 \* per producer: "zero" (timeout == 0) or "deadline"
    hooked,              \* per producer: onBackPressure ran in this call
    spc,                 \* the sender's position in GetNextToDeliver
    last,                \* the operation that returned last, and its result
    panic,               \* the runtime panic that ended the process
    admitted,            \* sequence numbers assigned, in admission order
    sinceReset,          \* sequence numbers returned since the last ResetDelivery
    replaying,           \* ResetDelivery was called, and Ack was not called since
    closedBlocked,       \* producers blocked on a full buffer when Close ran
    toPeer,              \* records written to the transport, not yet read
    toClient,            \* ACK frames written by the peer, not yet read
    conn,                \* the client's transport: "none", "open", "down", "closed"
    nConnections,        \* the counter of the test's server handler
    handlers,            \* connections the server handler has accepted
    reconnectDue,        \* the handler's goroutine is going to write RECONNECT
    signal,              \* a reconnect was signalled and not yet taken up
    cycles,              \* reconnect cycles started
    resets,              \* ResetDelivery calls made by the reconnect controller
    errors               \* transport errors so far

bufVars == <<capacity, buff, nextIndexFree, firstSeqNum, nextSeqNum, ackEvery,
             nextIndexToDeliver, isAvailable, isReadyToDeliver, isRunning>>

prodVars == <<pc, tmo, hooked>>

histVars == <<admitted, sinceReset, replaying, closedBlocked>>

chanVars == <<toPeer, toClient>>

sessVars == <<conn, nConnections, handlers, reconnectDue, signal, cycles, resets, errors>>

vars == <<bufVars, prodVars, spc, last, panic, histVars, chanVars, sessVars>>

Slots == 0 .. (capacity - 1)

\* The sequence numbers of the records stored in the buffer.
Stored == {buff[i].seq : i \in {j \in Slots : ~buff[j].nil}}

\* ------------------------------------------------------------ construction

AckEveryOf_Whole(c) == c

AckEveryOf_Beyond(c) == c + 1

\* uint64(float64(o.BufferCapacity) * ackPercentOfCapacity)
AckEveryOf(c) == c \div 2

NewAckBuffer(c) ==
    /\ capacity = c
    /\ buff = [i \in 0 .. (c - 1) |-> NoMsg]
    /\ ackEvery = AckEveryOf(c)
    /\ isRunning = TRUE
    /\ isAvailable = TRUE
    /\ firstSeqNum = 1
    /\ nextSeqNum = 1
    /\ nextIndexFree = 0
    /\ nextIndexToDeliver = 0
    /\ isReadyToDeliver = FALSE

Init ==
    /\ \E c \in 1 .. MaxCapacity : NewAckBuffer(c)
    /\ pc = [p \in Producers |-> "idle"]
    /\ tmo = [p \in Producers |-> "zero"]
    /\ hooked = [p \in Producers |-> FALSE]
    /\ spc = "idle"
    /\ last = [op |-> "New"]
    /\ panic = NoPanic
    /\ admitted = <<>>
    /\ sinceReset = <<>>
    /\ replaying = FALSE
    /\ closedBlocked = {}
    /\ toPeer = <<>>
    /\ toClient = <<>>
    /\ conn = "none"
    /\ nConnections = 0
    /\ handlers = 0
    /\ reconnectDue = FALSE
    /\ signal = FALSE
    /\ cycles = 0
    /\ resets = 0
    /\ errors = 0

\* ------------------------------------------------------------------- Add

Alive == panic = NoPanic

\* Producers inside an Add call.
InAdd == {p \in Producers : pc[p] # "idle"}

\* An Add call returns: the producer is back outside the call.
AddReturn(p, ok) ==
    /\ pc' = [pc EXCEPT ![p] = "idle"]
    /\ tmo' = [tmo EXCEPT ![p] = "zero"]
    /\ hooked' = [hooked EXCEPT ![p] = FALSE]
    /\ last' = [op |-> "Add", by |-> p, ok |-> ok]

\* Entry of Add up to the first wait on isAvailable: the deadline is computed,
\* an already expired deadline returns false, and with a deadline the
\* onBackPressure hook runs when the latch is not set.
AddCall(p, t, expired) ==
    /\ Alive
    /\ pc[p] = "idle"
    /\ Len(admitted) + Cardinality(InAdd) < MaxAdds
    /\ closedBlocked' = closedBlocked \ {p}
    /\ IF t = "deadline" /\ expired
       THEN /\ pc' = pc /\ tmo' = tmo /\ hooked' = hooked
            /\ last' = [op |-> "Add", by |-> p, ok |-> FALSE]
       ELSE /\ pc' = [pc EXCEPT ![p] = "wait"]
            /\ tmo' = [tmo EXCEPT ![p] = t]
            /\ hooked' = [hooked EXCEPT ![p] = (t = "deadline" /\ ~isAvailable)]
            /\ last' = last
    /\ UNCHANGED <<bufVars, spc, panic, chanVars, sessVars>>
    /\ UNCHANGED <<admitted, sinceReset, replaying>>

\* isAvailable.WaitFor returns.  With a deadline a false result (the wait
\* timed out with the latch still clear) leaves the loop; with timeout 0 the
\* result of the 500 ms wait is ignored.
AddWait(p) ==
    /\ Alive
    /\ pc[p] = "wait"
    /\ IF tmo[p] = "deadline" /\ ~isAvailable
       THEN AddReturn(p, FALSE)
       ELSE /\ pc' = [pc EXCEPT ![p] = "lock"]
            /\ UNCHANGED <<tmo, hooked, last>>
    /\ UNCHANGED <<bufVars, spc, panic, histVars, chanVars, sessVars>>

\* b.nextSeqNum++
SeqAfter_Skip(seq) == Add64(seq, 2)

SeqAfter(seq) == Add64(seq, 1)

AckRequestedFor_Unstamped(seq, passed) == passed

\* if e.SeqNum%b.ackEvery == 0 { e.AckRequested = true }
AckRequestedFor(seq, passed) == IF seq % ackEvery = 0 THEN TRUE ELSE passed

AvailableAfterAdd_Late(free) == IF free > capacity THEN FALSE ELSE isAvailable

\* if b.nextIndexFree >= uint64(len(b.buff)) { b.isAvailable.Clear() }
AvailableAfterAdd(free) == IF free >= capacity THEN FALSE ELSE isAvailable

\* The record e, which the producer passed with e.AckRequested = passed, is
\* stamped and stored.
AddStore(p, passed) ==
    /\ nextSeqNum' = SeqAfter(nextSeqNum)
    /\ buff' = [buff EXCEPT ![nextIndexFree] =
                    DataMessage(nextSeqNum, AckRequestedFor(nextSeqNum, passed))]
    /\ nextIndexFree' = Add64(nextIndexFree, 1)
    /\ isAvailable' = AvailableAfterAdd(Add64(nextIndexFree, 1))
    /\ isReadyToDeliver' = TRUE
    /\ admitted' = Append(admitted, nextSeqNum)
    /\ AddReturn(p, TRUE)
    /\ UNCHANGED <<capacity, firstSeqNum, ackEvery, nextIndexToDeliver, isRunning, panic>>

\* The process dies inside the locked section of Add, after b.nextSeqNum++.
AddPanic(why) ==
    /\ panic' = why
    /\ nextSeqNum' = SeqAfter(nextSeqNum)
    /\ UNCHANGED <<capacity, buff, nextIndexFree, firstSeqNum, ackEvery,
                   nextIndexToDeliver, isAvailable, isReadyToDeliver, isRunning>>
    /\ UNCHANGED <<pc, tmo, hooked, last, admitted>>

\* The locked section of Add, for a record passed with e.AckRequested = passed.
AddLocked(p, passed) ==
    /\ Alive
    /\ pc[p] = "lock"
    /\ IF ~isAvailable
       THEN /\ IF tmo[p] = "zero" /\ isRunning
               THEN /\ pc' = [pc EXCEPT ![p] = "wait"]
                    /\ UNCHANGED <<tmo, hooked, last>>
               ELSE AddReturn(p, FALSE)
            /\ UNCHANGED <<bufVars, panic, admitted>>
       ELSE IF ackEvery = 0
            THEN AddPanic("integer divide by zero")
            ELSE IF nextIndexFree >= capacity
                 THEN AddPanic("index out of range")
                 ELSE AddStore(p, passed)
    /\ UNCHANGED <<spc, chanVars, sessVars>>
    /\ UNCHANGED <<sinceReset, replaying, closedBlocked>>

\* ------------------------------------------------------------------- Ack

\* The two wraparound guards at the head of Ack.
AckUnexpected(seq) ==
    \/ /\ seq < firstSeqNum
       /\ Sub64(capacity, Sub64(MaxUint64, firstSeqNum)) <= seq
    \/ /\ seq >= nextSeqNum
       /\ nextSeqNum >= Sub64(MaxUint64, seq)

\* indexAcked := seq - b.firstSeqNum
IndexAcked(seq) == Sub64(seq, firstSeqNum)

ShiftLeft_OffByOne(b, idx) ==
    [i \in Slots |-> IF i + idx < capacity THEN b[i + idx] ELSE b[i]]

\* for i := indexAcked + 1; i < len(b.buff); i++ { b.buff[i-indexAcked-1] = b.buff[i] }
ShiftLeft(b, idx) ==
    [i \in Slots |-> IF i + idx + 1 < capacity THEN b[i + idx + 1] ELSE b[i]]

ClearFrom_OneMore(b, free) == [i \in Slots |-> IF i + 1 >= free THEN NoMsg ELSE b[i]]

\* for i := b.nextIndexFree; i < len(b.buff); i++ { b.buff[i] = nil }
ClearFrom(b, free) == [i \in Slots |-> IF i >= free THEN NoMsg ELSE b[i]]

FreeAfterAck_OneLess(idx) == Sub64(nextIndexFree, idx)

\* b.nextIndexFree = b.nextIndexFree - indexAcked - 1
FreeAfterAck(idx) == Sub64(Sub64(nextIndexFree, idx), 1)

DeliverAfterAck_Keep(idx) == nextIndexToDeliver

\* b.nextIndexToDeliver -= (indexAcked + 1)
DeliverAfterAck(idx) == Sub64(nextIndexToDeliver, Add64(idx, 1))

ReadyUnless_Late(deliver, free) == IF deliver > free THEN FALSE ELSE isReadyToDeliver

\* if b.nextIndexToDeliver >= b.nextIndexFree { b.isReadyToDeliver.Clear() }
ReadyUnless(deliver, free) == IF deliver >= free THEN FALSE ELSE isReadyToDeliver

\* Ack returns an error: nothing of the buffer is written.
AckError(seq) ==
    /\ last' = [op |-> "Ack", ok |-> FALSE]
    /\ UNCHANGED <<bufVars, panic>>

\* Formatting the "not yet delivered" error reads b.buff[b.nextIndexToDeliver].
AckNotDelivered(seq) ==
    IF nextIndexToDeliver >= capacity
    THEN /\ panic' = "index out of range"
         /\ UNCHANGED <<bufVars, last>>
    ELSE AckError(seq)

\* The acknowledged prefix is released.
AckRelease(seq, idx) ==
    /\ firstSeqNum' = Add64(seq, 1)
    /\ nextIndexFree' = FreeAfterAck(idx)
    /\ buff' = ClearFrom(ShiftLeft(buff, idx), FreeAfterAck(idx))
    /\ isAvailable' = TRUE
    /\ nextIndexToDeliver' = DeliverAfterAck(idx)
    /\ isReadyToDeliver' = ReadyUnless(DeliverAfterAck(idx), FreeAfterAck(idx))
    /\ last' = [op |-> "Ack", seq |-> seq, ok |-> TRUE]
    /\ UNCHANGED <<capacity, nextSeqNum, ackEvery, isRunning, panic>>

\* The body of Ack(seq), whoever calls it.
AckBody(seq) ==
    /\ Alive
    /\ IF AckUnexpected(seq)
       THEN AckError(seq)
       ELSE IF IndexAcked(seq) >= nextIndexToDeliver
            THEN AckNotDelivered(seq)
            ELSE AckRelease(seq, IndexAcked(seq))
    /\ replaying' = FALSE
    /\ UNCHANGED <<prodVars, spc>>
    /\ UNCHANGED <<admitted, sinceReset, closedBlocked>>

\* Ack called with any sequence number.
Ack(seq) ==
    /\ AckBody(seq)
    /\ UNCHANGED <<chanVars, sessVars>>

\* ------------------------------------------------------ GetNextToDeliver

GetReturn(n) ==
    /\ spc' = "idle"
    /\ last' = [op |-> "Get", msg |-> n]

\* isReadyToDeliver.WaitFor(timeout) returns: false ends the call with nil.
GetWait ==
    /\ Alive
    /\ spc = "idle"
    /\ IF isReadyToDeliver
       THEN spc' = "lock" /\ last' = last
       ELSE GetReturn(NoMsg)
    /\ UNCHANGED <<bufVars, prodVars, panic, histVars, chanVars, sessVars>>

\* n := b.buff[b.nextIndexToDeliver]; b.nextIndexToDeliver++
GetTake(n) ==
    /\ nextIndexToDeliver' = Add64(nextIndexToDeliver, 1)
    /\ isReadyToDeliver' = ReadyUnless(Add64(nextIndexToDeliver, 1), nextIndexFree)
    /\ sinceReset' = IF n.nil THEN sinceReset ELSE Append(sinceReset, n.seq)
    /\ GetReturn(n)
    /\ UNCHANGED <<capacity, buff, nextIndexFree, firstSeqNum, nextSeqNum, ackEvery,
                   isAvailable, isRunning, panic>>

\* The locked section of GetNextToDeliver; `written` is what the caller
\* then writes to the transport.
GetLocked(written) ==
    /\ Alive
    /\ spc = "lock"
    /\ IF ~isReadyToDeliver
       THEN /\ GetReturn(NoMsg)
            /\ written = <<>>
            /\ UNCHANGED <<bufVars, panic, sinceReset>>
       ELSE IF nextIndexToDeliver >= capacity
            THEN /\ panic' = "index out of range"
                 /\ written = <<>>
                 /\ UNCHANGED <<bufVars, spc, last, sinceReset>>
            ELSE /\ GetTake(buff[nextIndexToDeliver])
                 /\ written = IF buff[nextIndexToDeliver].nil
                              THEN <<>> ELSE <<buff[nextIndexToDeliver]>>
    /\ UNCHANGED <<prodVars, admitted, replaying, closedBlocked>>

\* GetNextToDeliver called directly: the record goes to the caller.
GetNextToDeliver ==
    /\ \E w \in {<<>>} \cup {<<buff[i]>> : i \in Slots} : GetLocked(w)
    /\ UNCHANGED <<chanVars, sessVars>>

\* --------------------------------------------------- ResetDelivery, Close

ResetIndex_Keep == nextIndexToDeliver

\* b.nextIndexToDeliver = 0
ResetIndex == 0

\* The locked section of ResetDelivery.
ResetDeliveryBody ==
    /\ Alive
    /\ nextIndexToDeliver' = ResetIndex
    /\ isReadyToDeliver' = ~(ResetIndex >= nextIndexFree)
    /\ sinceReset' = <<>>
    /\ replaying' = TRUE
    /\ last' = [op |-> "Reset"]
    /\ UNCHANGED <<capacity, buff, nextIndexFree, firstSeqNum, nextSeqNum, ackEvery,
                   isAvailable, isRunning>>
    /\ UNCHANGED <<prodVars, spc, panic, admitted, closedBlocked>>

\* ResetDelivery called directly.
ResetDelivery ==
    /\ ResetDeliveryBody
    /\ UNCHANGED <<chanVars, sessVars>>

\* Producers waiting inside Add on a full buffer.
Blocked == {p \in Producers : pc[p] = "wait" /\ ~isAvailable /\ nextIndexFree >= capacity}

\* The locked section of Close.
CloseBody ==
    /\ Alive
    /\ isRunning' = FALSE
    /\ closedBlocked' = closedBlocked \cup Blocked
    /\ last' = [op |-> "Close"]
    /\ UNCHANGED <<capacity, buff, nextIndexFree, firstSeqNum, nextSeqNum, ackEvery,
                   nextIndexToDeliver, isAvailable, isReadyToDeliver>>
    /\ UNCHANGED <<prodVars, spc, panic>>
    /\ UNCHANGED <<admitted, sinceReset, replaying>>

\* Close called directly.
Close ==
    /\ CloseBody
    /\ UNCHANGED <<chanVars, sessVars>>

\* ------------------------------------------------------- the buffer alone

Timeouts == {"zero", "deadline"}

Next ==
    \/ \E p \in Producers, t \in Timeouts, e \in BOOLEAN : AddCall(p, t, e)
    \/ \E p \in Producers : AddWait(p)
    \/ \E p \in Producers, f \in BOOLEAN : AddLocked(p, f)
    \/ \E seq \in AckSeqs : Ack(seq)
    \/ GetWait
    \/ GetNextToDeliver
    \/ ResetDelivery
    \/ Close

Spec == Init /\ [][Next]_vars

\* ------------------------------------- the session with an acking peer

\* Sender loop: the record GetNextToDeliver returns is written to the transport.
SenderDeliver ==
    /\ \E w \in {<<>>} \cup {<<buff[i]>> : i \in Slots} :
          /\ GetLocked(w)
          /\ toPeer' = toPeer \o w
    /\ UNCHANGED <<toClient, sessVars>>

\* The peer reads one record and answers ACK{SeqNum} when AckRequested is set.
PeerRead ==
    /\ Alive
    /\ toPeer # <<>>
    /\ toPeer' = Tail(toPeer)
    /\ toClient' = IF Head(toPeer).ack
                   THEN Append(toClient, Head(toPeer).seq)
                   ELSE toClient
    /\ UNCHANGED <<bufVars, prodVars, spc, last, panic, histVars, sessVars>>

\* Receiver loop: one ACK frame is read and applied with Ack(seq).
ReceiverAck ==
    /\ toClient # <<>>
    /\ AckBody(Head(toClient))
    /\ toClient' = Tail(toClient)
    /\ UNCHANGED <<toPeer, sessVars>>

LiveNext ==
    \/ \E p \in Producers, t \in Timeouts, e \in BOOLEAN : AddCall(p, t, e)
    \/ \E p \in Producers : AddWait(p)
    \/ \E p \in Producers, f \in BOOLEAN : AddLocked(p, f)
    \/ GetWait
    \/ SenderDeliver
    \/ PeerRead
    \/ ReceiverAck

\* Every thread that can take a step eventually takes one; a producer need
\* not call Add again.
Fairness ==
    /\ \A p \in Producers : WF_vars(AddWait(p))
    /\ \A p \in Producers : WF_vars(\E f \in BOOLEAN : AddLocked(p, f))
    /\ WF_vars(GetWait)
    /\ WF_vars(SenderDeliver)
    /\ WF_vars(PeerRead)
    /\ WF_vars(ReceiverAck)

LiveSpec == Init /\ [][LiveNext]_vars /\ Fairness

\* ------------------------------------------- the session of TestConnection

\* Transport errors in one behaviour.
MaxErrors == 1

\* The control frames the receiver reads.
FrameKinds == {"ACK", "RECONNECT"}

\* The server handler has read a valid header: nConnections++, then
\* atomic.AddUint32(&nConnections, 1); the goroutine that writes RECONNECT
\* after five seconds is started if the counter now reads 1.
HandlerAccept ==
    /\ nConnections' = (nConnections + 1) + 1
    /\ handlers' = handlers + 1
    /\ reconnectDue' = (nConnections' = 1)

\* The client opens its transport and writes the header, at startup and at
\* the end of a reconnect cycle.
ClientConnect ==
    /\ Alive
    /\ conn \in {"none", "down"}
    /\ conn' = "open"
    /\ HandlerAccept
    /\ UNCHANGED <<signal, cycles, resets, errors>>
    /\ UNCHANGED <<bufVars, prodVars, spc, last, panic, histVars, chanVars>>

\* Receiver loop: an ACK frame is applied with Ack(seq); a RECONNECT frame
\* signals a reconnect.
ReceiverRead(kind) ==
    /\ conn = "open"
    /\ IF kind = "ACK"
       THEN ReceiverAck
       ELSE /\ Alive
            /\ reconnectDue
            /\ reconnectDue' = FALSE
            /\ signal' = TRUE
            /\ UNCHANGED <<conn, nConnections, handlers, cycles, resets, errors>>
            /\ UNCHANGED <<bufVars, prodVars, spc, last, panic, histVars, chanVars>>

\* A read or write on the transport fails: the loop that sees it signals a
\* reconnect; signals that are already pending coalesce.
TransportError ==
    /\ Alive
    /\ conn = "open"
    /\ errors < MaxErrors
    /\ errors' = errors + 1
    /\ signal' = TRUE
    /\ UNCHANGED <<conn, nConnections, handlers, reconnectDue, cycles, resets>>
    /\ UNCHANGED <<bufVars, prodVars, spc, last, panic, histVars, chanVars>>

\* Reconnect controller, first half of a cycle: with the loops stopped it
\* closes the transport (frames in flight are lost, the handler and its
\* goroutine end) and calls ResetDelivery.
ReconnectBegin ==
    /\ signal
    /\ conn = "open"
    /\ spc = "idle"
    /\ signal' = FALSE
    /\ conn' = "down"
    /\ cycles' = cycles + 1
    /\ ResetDeliveryBody
    /\ resets' = resets + 1
    /\ reconnectDue' = FALSE
    /\ toPeer' = <<>>
    /\ toClient' = <<>>
    /\ UNCHANGED <<nConnections, handlers, errors>>

\* client.Close(): the test calls it ten seconds after the last Ship, so a
\* RECONNECT that is due has been written and read by then, and the cycle
\* it starts has reopened the transport.
ClientClose ==
    /\ conn = "open"
    /\ ~reconnectDue
    /\ ~signal
    /\ conn' = "closed"
    /\ CloseBody
    /\ UNCHANGED <<nConnections, handlers, reconnectDue, signal, cycles, resets, errors>>
    /\ UNCHANGED chanVars

SessionNext ==
    \/ ClientConnect
    \/ \E p \in Producers, t \in Timeouts, e \in BOOLEAN : conn # "none" /\ AddCall(p, t, e)
    \/ \E p \in Producers : AddWait(p)
    \/ \E p \in Producers, f \in BOOLEAN : AddLocked(p, f)
    \/ conn = "open" /\ GetWait
    \/ conn = "open" /\ SenderDeliver
    \/ conn = "open" /\ PeerRead
    \/ \E kind \in FrameKinds : ReceiverRead(kind)
    \/ TransportError
    \/ ReconnectBegin
    \/ ClientClose

SessionSpec == Init /\ [][SessionNext]_vars

\* ------------------------------------------------------------- properties

Range(q) == {q[i] : i \in 1 .. Len(q)}

\* The step is the locked section of GetNextToDeliver.
GetStep == spc = "lock" /\ spc' = "idle"

\* The step is an Ack that returned nil and released everything up to s.
AckedUpTo(s) ==
    /\ last'.op = "Ack"
    /\ last'.ok
    /\ last'.seq = s
    /\ firstSeqNum' = s + 1
    /\ firstSeqNum <= s

\* C1: a record leaves the buffer only in a successful Ack(s) with s at least
\* its sequence number, and only if GetNextToDeliver returned it since the
\* last ResetDelivery (so it was handed out at least once); GetNextToDeliver
\* removes nothing; an admitted record is either stored or was so released.
C1_ReleasedOnlyAfterDelivery ==
    [][ /\ \A r \in Stored :
              r \notin Stored' =>
                  /\ \E s \in AckSeqs : s >= r /\ AckedUpTo(s)
                  /\ r \in Range(sinceReset)
        /\ GetStep => buff' = buff
        /\ Stored' \subseteq Stored \cup Range(admitted')
        /\ Range(admitted) \subseteq Range(admitted')
      ]_vars

\* Ack released two delivered records and left an undelivered one, while a
\* producer and the sender were inside their calls.
C1_Witness ==
    /\ last.op = "Ack"
    /\ last.ok
    /\ last.seq >= 2
    /\ nextIndexToDeliver < nextIndexFree
    /\ spc = "lock"
    /\ InAdd # {}

\* seq lies outside [first_seq, first_seq + deliver_cursor).
OutOfRange(seq) == ~(firstSeqNum <= seq /\ seq < firstSeqNum + nextIndexToDeliver)

\* C2: Ack(seq) with seq outside [first_seq, first_seq + deliver_cursor)
\* returns an error without crashing and leaves slots, first_seq, next_seq,
\* next_free, deliver_cursor and both latches as they were.
C2_InvalidAckRejected ==
    [][ \A seq \in AckSeqs :
            (OutOfRange(seq) /\ Ack(seq)) =>
                /\ panic' = NoPanic
                /\ last' = [op |-> "Ack", ok |-> FALSE]
                /\ UNCHANGED bufVars
      ]_vars

\* C3: once Close has run, no Add call returns true and no record is stored.
C3_NoAdmissionAfterClose ==
    [][ ~isRunning => (admitted' = admitted /\ nextIndexFree' <= nextIndexFree) ]_vars

\* C4: the records GetNextToDeliver returns between two ResetDelivery calls
\* carry consecutive ascending sequence numbers.
C4_DeliveryInOrder ==
    \A i \in 2 .. Len(sinceReset) : sinceReset[i] = sinceReset[i - 1] + 1

\* Four records were delivered in a row while Ack released the first ones
\* and a later Add refilled the buffer.
C4_Witness ==
    /\ Len(sinceReset) >= 4
    /\ firstSeqNum > 1
    /\ capacity <= 3
    /\ last.op = "Get"
    /\ ~last.msg.nil

\* C5: the sequence numbers given to admitted records are 1, 2, 3, ... in
\* admission order, and every stored record carries the number of its slot.
C5_SequenceNumbersGapless ==
    /\ \A i \in 1 .. Len(admitted) : admitted[i] = i
    /\ nextSeqNum = Len(admitted) + 1 \/ ~Alive
    /\ Stored \subseteq Range(admitted)

\* Both producers were inside Add together, records were released by Ack,
\* and the second producer received the fourth number.
C5_Witness ==
    /\ Len(admitted) >= 4
    /\ firstSeqNum > 2
    /\ last = [op |-> "Add", by |-> "p2", ok |-> TRUE]
    /\ pc["p1"] = "lock"

\* C6: after ResetDelivery and with no Ack since, the records returned by
\* GetNextToDeliver are the stored records from slot 0 on, the first one
\* carrying first_seq, and nil is returned only once all of them have been
\* returned; on an empty buffer ready is clear and GetNextToDeliver returns nil.
C6_ReplayFromFirst ==
    replaying =>
        /\ Len(sinceReset) <= nextIndexFree
        /\ Len(sinceReset) = nextIndexToDeliver
        /\ (last.op = "Get" /\ last.msg = NoMsg) => Len(sinceReset) = nextIndexFree
        /\ \A i \in 1 .. Len(sinceReset) :
              /\ sinceReset[i] = buff[i - 1].seq
              /\ sinceReset[i] = firstSeqNum + (i - 1)
        /\ nextIndexFree = 0 =>
              /\ ~isReadyToDeliver
              /\ last.op = "Get" => last.msg = NoMsg

\* After deliveries and an Ack, ResetDelivery ran, and the three records
\* stored since were all returned, starting over from slot 0.
C6_Witness ==
    /\ replaying
    /\ firstSeqNum > 1
    /\ nextIndexFree = 3
    /\ Len(sinceReset) = 3

\* C7: for capacity at least 2, every stored record has
\* ack_requested == (seq mod floor(C/2) == 0).
C7_AckRequestedIffMultiple ==
    capacity >= 2 =>
        \A i \in Slots :
            ~buff[i].nil => (buff[i].ack <=> (buff[i].seq % ackEvery = 0))

\* C8: a buffer of capacity 1 never crashes, and its first admitted record
\* gets sequence number 1 and fills the buffer.
C8_CapacityOneUsable ==
    capacity = 1 =>
        /\ panic = NoPanic
        /\ nextSeqNum > 1 => (Len(admitted) >= 1 /\ admitted[1] = 1)
        /\ Len(admitted) = 1 => (nextIndexFree = 1 /\ ~isAvailable)

\* C9: an Add call that was blocked on a full buffer when Close ran returns
\* false.
C9_BlockedAddReturnsFalse ==
    (last.op = "Add" /\ last.by \in closedBlocked) => ~last.ok

\* A producer is inside Add with timeout 0.
Waiting(p) == pc[p] # "idle" /\ tmo[p] = "zero"

\* C10: with the sender delivering, the peer acknowledging every record that
\* asks for it, and the receiver applying the acks, every Add call with
\* timeout 0 on a buffer of capacity at least 2 returns true.
C10_BackpressureReleased ==
    \A p \in Producers :
        (capacity >= 2 /\ Waiting(p)) ~> (last = [op |-> "Add", by |-> p, ok |-> TRUE])

\* A producer with timeout 0 waits on a full buffer whose records have all
\* been delivered, while the ACK that will make room is on its way.
C10_Witness ==
    /\ capacity >= 2
    /\ \E p \in Producers : Waiting(p) /\ pc[p] = "wait"
    /\ ~isAvailable
    /\ nextIndexToDeliver = nextIndexFree
    /\ toClient # <<>>

\* C11: a producer that waits in Add on a full buffer (available unset) had
\* the on_backpressure hook invoked for that wait, whether it passed a
\* timeout or 0.
C11_HookOnBlockedWait ==
    \A p \in Producers :
        (pc[p] = "wait" /\ ~isAvailable /\ nextIndexFree >= capacity) => hooked[p]

\* C12: an Ack(seq) that returns nil, with idx = seq - first_seq, leaves the
\* records after seq in their order in slots 0 .. next_free - idx - 2 and
\* every later slot empty, so that exactly first_seq .. seq are gone, sets
\* first_seq to seq + 1, lowers next_free and deliver_cursor by idx + 1 and
\* raises available.
C12_AckCompacts ==
    [][ \A seq \in AckSeqs :
            AckedUpTo(seq) =>
                LET idx == seq - firstSeqNum
                IN  /\ Stored' = Stored \ (firstSeqNum .. seq)
                    /\ firstSeqNum .. seq \subseteq Stored
                    /\ \A i \in Slots :
                          buff'[i] = IF i + idx + 1 < nextIndexFree
                                     THEN buff[i + idx + 1]
                                     ELSE NoMsg
                    /\ firstSeqNum' = seq + 1
                    /\ nextIndexFree' = nextIndexFree - (idx + 1)
                    /\ nextIndexToDeliver' = nextIndexToDeliver - (idx + 1)
                    /\ isAvailable'
                    /\ nextSeqNum' = nextSeqNum
      ]_vars

\* Capacity 4, records 1 .. 4 admitted and delivered, Ack(2) left exactly
\* records 3 and 4, and the next Add was given sequence number 5 at once.
C12_Witness ==
    /\ capacity = 4
    /\ admitted = <<1, 2, 3, 4, 5>>
    /\ sinceReset = <<1, 2, 3, 4>>
    /\ firstSeqNum = 3
    /\ buff[0].seq = 3 /\ buff[1].seq = 4 /\ buff[2].seq = 5 /\ buff[3] = NoMsg
    /\ last.op = "Add" /\ last.ok

\* The records the peer has read: those handed to the sender and no longer
\* in flight (the session never resets delivery).
PeerGot == Range(sinceReset) \ {toPeer[i].seq : i \in 1 .. Len(toPeer)}

\* Every admitted record reached the peer, and the backlog is empty if the
\* number of admitted records is a multiple of floor(C/2).
Drained ==
    capacity >= 2 =>
        /\ Range(admitted) \subseteq PeerGot
        /\ Len(admitted) % (capacity \div 2) = 0 => Stored = {}

\* C13: with the sender delivering in order and the peer acknowledging every
\* record that asks for it, all admitted records are eventually delivered to
\* the peer, and when their number is a multiple of floor(C/2) the unacked
\* set becomes empty and stays empty.
C13_HappyPathDrain == <>[]Drained

\* Four records went through a buffer of capacity 2: all were read by the
\* peer and released, and nothing is left in the buffer or in flight.
C13_Witness ==
    /\ capacity = 2
    /\ Len(admitted) = 4
    /\ Range(admitted) \subseteq PeerGot
    /\ Stored = {}
    /\ firstSeqNum = 5
    /\ toClient = <<>>
    /\ InAdd = {}

\* C15: between the calls of Add, Ack, GetNextToDeliver, ResetDelivery and
\* Close (no method holds the lock), next_seq == first_seq + next_free,
\* 0 <= deliver_cursor <= next_free <= C, slot i holds the record numbered
\* first_seq + i for every i < next_free, and every slot from next_free on
\* is empty.  A method that crashed never released the lock.
C15_Structure ==
    Alive =>
        /\ nextSeqNum = firstSeqNum + nextIndexFree
        /\ 0 <= nextIndexToDeliver
        /\ nextIndexToDeliver <= nextIndexFree
        /\ nextIndexFree <= capacity
        /\ \A i \in Slots :
              IF i < nextIndexFree
              THEN ~buff[i].nil /\ buff[i].seq = firstSeqNum + i
              ELSE buff[i] = NoMsg

\* After Close, an Ack released records, ResetDelivery rewound the cursor
\* and part of the stored records were handed out again.
C15_Witness ==
    /\ ~isRunning
    /\ firstSeqNum > 1
    /\ nextIndexFree >= 2
    /\ replaying
    /\ nextIndexToDeliver = 1
    /\ InAdd # {}

\* C16: between the calls, also after Close, the available latch is set iff
\* next_free < C and the ready latch is set iff deliver_cursor < next_free.
C16_Latches ==
    Alive =>
        /\ isAvailable <=> (nextIndexFree < capacity)
        /\ isReadyToDeliver <=> (nextIndexToDeliver < nextIndexFree)

\* Close ran while a producer was blocked on a full buffer with one record
\* still to deliver: available stays clear and ready stays set.
C16_Witness ==
    /\ ~isRunning
    /\ last.op = "Close"
    /\ nextIndexFree = capacity
    /\ ~isAvailable
    /\ Blocked # {}
    /\ isReadyToDeliver
    /\ nextIndexToDeliver = nextIndexFree - 1

\* Producer p returns from Add in this step, after waiting.
AddReturns(p) == pc[p] # "idle" /\ pc'[p] = "idle"

\* C17: Add returns true iff it stored the record.  A call that returns true
\* has put the record into slot next_free with the old next_seq, advanced
\* next_free and next_seq by one and raised ready; a call that returns false
\* has left the slots, first_seq, next_seq, next_free, deliver_cursor and
\* both latches as they were, and no sequence number was given out.
C17_AddTrueIffStored ==
    [][ /\ \A p \in Producers :
              AddReturns(p) =>
                  /\ last'.op = "Add" /\ last'.by = p
                  /\ IF last'.ok
                     THEN /\ ~buff'[nextIndexFree].nil
                          /\ buff'[nextIndexFree].seq = nextSeqNum
                          /\ \A i \in Slots \ {nextIndexFree} : buff'[i] = buff[i]
                          /\ nextIndexFree' = nextIndexFree + 1
                          /\ nextSeqNum' = nextSeqNum + 1
                          /\ isReadyToDeliver'
                          /\ admitted' = Append(admitted, nextSeqNum)
                          /\ UNCHANGED <<firstSeqNum, nextIndexToDeliver>>
                     ELSE UNCHANGED <<bufVars, admitted>>
        /\ (last' # last /\ last'.op = "Add" /\ ~last'.ok) => UNCHANGED <<bufVars, admitted>>
        /\ (nextIndexFree' > nextIndexFree \/ admitted' # admitted) =>
              /\ last'.op = "Add" /\ last'.ok
              /\ AddReturns(last'.by)
              /\ panic' = NoPanic
      ]_vars

\* One producer was refused on a full buffer while the other is still
\* inside Add, after an earlier call had stored the record that filled it.
C17_Witness ==
    /\ last.op = "Add" /\ ~last.ok
    /\ nextIndexFree = capacity
    /\ Len(admitted) = capacity
    /\ capacity >= 2
    /\ InAdd # {}
    /\ isRunning

\* C18: an Add call with a nonzero timeout returns false only because its
\* deadline passed (at entry or while waiting on available) or because the
\* buffer is no longer running; a producer that woke on available and found
\* the slot taken under the lock does not return false while the buffer is
\* running.
C18_FalseOnlyAtDeadline ==
    [][ \A p \in Producers :
            ( /\ pc[p] = "lock"
              /\ tmo[p] = "deadline"
              /\ pc'[p] = "idle"
              /\ ~last'.ok ) => ~isRunning
      ]_vars

\* C19: under the lock GetNextToDeliver returns a record iff
\* deliver_cursor < next_free; the record is slots[deliver_cursor], never an
\* empty slot, deliver_cursor advances by one and ready is cleared iff the
\* cursor has reached next_free; otherwise it returns nil and changes
\* nothing.
C19_GetUnderLock ==
    [][ GetStep =>
            /\ last'.op = "Get"
            /\ IF nextIndexToDeliver < nextIndexFree
               THEN /\ last'.msg = buff[nextIndexToDeliver]
                    /\ ~last'.msg.nil
                    /\ nextIndexToDeliver' = nextIndexToDeliver + 1
                    /\ isReadyToDeliver' <=> (nextIndexToDeliver' < nextIndexFree)
                    /\ sinceReset' = Append(sinceReset, last'.msg.seq)
                    /\ UNCHANGED <<buff, nextIndexFree, firstSeqNum, nextSeqNum, isAvailable>>
               ELSE /\ last'.msg = NoMsg
                    /\ UNCHANGED <<bufVars, sinceReset>>
      ]_vars

\* The sender took the last undelivered record of a full buffer, after an
\* Ack and a producer had both run since it last returned: ready is clear.
C19_Witness ==
    /\ last.op = "Get"
    /\ ~last.msg.nil
    /\ last.msg.seq = nextSeqNum - 1
    /\ ~isReadyToDeliver
    /\ nextIndexToDeliver = nextIndexFree
    /\ firstSeqNum > 1
    /\ nextIndexFree >= 2

\* C20: for capacity at least 2, a full buffer (next_free == C, available
\* clear) holds at least one record with ack_requested set.
C20_FullBufferAsksForAck ==
    (capacity >= 2 /\ nextIndexFree = capacity /\ ~isAvailable) =>
        \E i \in Slots : ~buff[i].nil /\ buff[i].ack

\* A full buffer of capacity 4 holding records 2 .. 5, none of which was
\* flagged by its producer: records 2 and 4 ask for an ACK.
C20_Witness ==
    /\ capacity = 4
    /\ nextIndexFree = capacity
    /\ ~isAvailable
    /\ firstSeqNum = 2
    /\ {buff[i].seq : i \in {j \in Slots : buff[j].ack}} = {2, 4}

\* C14: in a session without transport errors, whose peer is to send one
\* RECONNECT on its first connection, by the time the client is closed
\* exactly one reconnect cycle has run, with one ResetDelivery call, and the
\* peer has accepted exactly two connections.
C14_OneReconnectTwoConnections ==
    (conn = "closed" /\ errors = 0) =>
        /\ cycles = 1
        /\ resets = 1
        /\ handlers = 2

====
